---- MODULE Spec2Model ----
(***************************************************************************)
(* The `kern` table codec of opentype.js (src/tables/kern.js):             *)
(* parseKernTable with its Windows and Mac decoders, and makeKernTable.    *)
(*                                                                         *)
(* A run takes one test vector: either a kerning-pair object that is       *)
(* handed to makeKernTable, serialised by the Table Builder and parsed     *)
(* back, or a byte buffer that is handed to parseKernTable directly.       *)
(***************************************************************************)
EXTENDS Integers, Sequences, FiniteSets, TLC

VARIABLES
    tv,            \* the test vector the run was started with (never changes)
    pairs,         \* makeKernTable's argument: a JS object, as its entries in insertion order
    kern,          \* the field list makeKernTable handed to table.Table
    data,          \* the byte buffer given to parseKernTable
    start,         \* the offset given to parseKernTable
    pc,            \* where the run stands
    p,             \* the parser's position (offset + relativeOffset)
    rd,            \* the offsets of the buffer the parser has read so far
    acc,           \* the decoder's local `pairs` object
    nPairs,        \* the decoder's local nPairs
    i,             \* the decoder's loop counter
    warnings,      \* number of console.warn calls
    result,        \* the object parseKernTable returned (meaningful when pc = "returned")
    error          \* the message of the error thrown (meaningful when pc = "thrown")

vars == <<tv, pairs, kern, data, start, pc, p, rd, acc, nPairs, i, warnings, result, error>>

----------------------------------------------------------------------------
(* Bounds *)

\* Largest number of kerning pairs in a test vector.
MaxPairs == 3

----------------------------------------------------------------------------
(* JavaScript values *)

\* A JS Number: an integer, a non-integer (of which only the floor is kept),
\* NaN, or an infinity.
Num(n)  == [k |-> "int", v |-> n]
Frac(f) == [k |-> "frac", v |-> f]
NaN     == [k |-> "NaN", v |-> 0]
NegInf  == [k |-> "-Infinity", v |-> 0]
PosInf  == [k |-> "Infinity", v |-> 0]

IsInteger(x) == x.k = "int"

RECURSIVE Pow2(_)
Pow2(e) == IF e = 0 THEN 1 ELSE 2 * Pow2(e - 1)

\* floor(log2(n)) of a positive integer.
RECURSIVE FloorLog2(_)
FloorLog2(n) == IF n < 2 THEN 0 ELSE 1 + FloorLog2(n \div 2)

\* Math.log(x) / Math.log(2).  Math.log is -Infinity at 0, NaN below 0 and at
\* NaN and -Infinity, Infinity at Infinity; the quotient is the exact
\* exponent at a power of two and a non-integer at every other integer
\* (IEEE doubles, for the arguments a 16-bit count can produce).
JsLog2(x) ==
    CASE x.k = "int" /\ x.v > 0 ->
            IF Pow2(FloorLog2(x.v)) = x.v THEN Num(FloorLog2(x.v)) ELSE Frac(FloorLog2(x.v))
      [] x.k = "int" /\ x.v = 0 -> NegInf
      [] x.k = "int" /\ x.v < 0 -> NaN
      [] x.k = "frac" -> IF x.v >= 1 THEN Frac(FloorLog2(x.v)) ELSE NaN
      [] x.k = "Infinity" -> PosInf
      [] OTHER -> NaN

\* Math.floor
JsFloor(x) == IF x.k = "frac" THEN Num(x.v) ELSE x

\* x * c for a positive integer constant c
JsTimes(x, c) ==
    CASE x.k = "int" -> Num(x.v * c)
      [] x.k = "frac" -> Frac(x.v * c)
      [] OTHER -> x

\* n - x for an integer n
JsMinus(n, x) ==
    CASE x.k = "int" -> Num(n - x.v)
      [] x.k = "frac" -> Frac(n - x.v - 1)
      [] x.k = "-Infinity" -> PosInf
      [] x.k = "Infinity" -> NegInf
      [] OTHER -> NaN

\* The decimal digits, as one-character strings.
Digits == <<"0", "1", "2", "3", "4", "5", "6", "7", "8", "9">>

\* String(n) of a non-negative integer: its decimal digits.
RECURSIVE NumberToString(_)
NumberToString(n) ==
    IF n < 10 THEN <<Digits[n + 1]>>
    ELSE Append(NumberToString(n \div 10), Digits[(n % 10) + 1])

DigitValue(c) == CHOOSE d \in 0..9 : Digits[d + 1] = c

\* Number(s) of a string: its value when s is a non-empty run of decimal
\* digits, 0 for the empty string, NaN otherwise.
RECURSIVE DigitsValue(_)
DigitsValue(s) ==
    IF s = <<>> THEN 0
    ELSE 10 * DigitsValue(SubSeq(s, 1, Len(s) - 1)) + DigitValue(s[Len(s)])

StringToNumber(s) ==
    IF \A j \in 1..Len(s) : \E d \in 1..10 : Digits[d] = s[j]
    THEN Num(DigitsValue(s))
    ELSE NaN

\* s.split(','): the pieces of s between its commas.
RECURSIVE Split(_)
Split(s) ==
    IF \A j \in 1..Len(s) : s[j] # ","
    THEN <<s>>
    ELSE LET c == CHOOSE j \in 1..Len(s) : s[j] = "," /\ \A m \in 1..(j - 1) : s[m] # ","
         IN  <<SubSeq(s, 1, c - 1)>> \o Split(SubSeq(s, c + 1, Len(s)))

\* leftIndex + ',' + rightIndex
PairKey(leftIndex, rightIndex) ==
    NumberToString(leftIndex) \o <<",">> \o NumberToString(rightIndex)

\* obj[key] = value on an object kept as its entries in insertion order: an
\* existing key keeps its place and takes the new value, a new key goes last.
ObjectSet(obj, key, value) ==
    IF \E j \in 1..Len(obj) : obj[j][1] = key
    THEN [j \in 1..Len(obj) |-> IF obj[j][1] = key THEN <<key, value>> ELSE obj[j]]
    ELSE Append(obj, <<key, value>>)

----------------------------------------------------------------------------
(* makeKernTable *)

\* A field descriptor of the Table Builder.
Field(name, type, value) == [name |-> name, type |-> type, value |-> value]

\* largestPow2 and entrySelector as makeKernTable computes them from nPairs.
largestPow2(n) == JsFloor(JsLog2(Num(n)))

entrySelector(n) == JsLog2(largestPow2(n))

\* Mutant of pairRecords: the two glyph indices of the key taken in the
\* wrong order.
pairRecordsSwapped(entries, idx) ==
    LET key   == entries[idx + 1][1]
        split == Split(key)
        value == entries[idx + 1][2]
    IN  << Field(NumberToString(idx) \o <<"Left">>, "USHORT", StringToNumber(split[2])),
           Field(NumberToString(idx) \o <<"Right">>, "USHORT", StringToNumber(split[1])),
           Field(NumberToString(idx) \o <<"Value">>, "FWORD", Num(value)) >>

\* The three records the loop pushes for entries[idx] (idx counts from 0).
pairRecords(entries, idx) ==
    LET key   == entries[idx + 1][1]
        split == Split(key)
        value == entries[idx + 1][2]
    IN  << Field(NumberToString(idx) \o <<"Left">>, "USHORT", StringToNumber(split[1])),
           Field(NumberToString(idx) \o <<"Right">>, "USHORT", StringToNumber(split[2])),
           Field(NumberToString(idx) \o <<"Value">>, "FWORD", Num(value)) >>

\* Mutant of records: each entry's records put in front of the earlier ones.
RECURSIVE recordsReversed(_, _)
recordsReversed(entries, n) ==
    IF n = 0 THEN <<>> ELSE pairRecords(entries, n - 1) \o recordsReversed(entries, n - 1)

\* The records of entries[0 .. n-1], in that order.
RECURSIVE records(_, _)
records(entries, n) ==
    IF n = 0 THEN <<>> ELSE records(entries, n - 1) \o pairRecords(entries, n - 1)

\* Mutant of kernHeader: the subtable length without the 14 header bytes.
kernHeaderShortLength(n) ==
    << Field(<<"version">>, "USHORT", Num(0)),
       Field(<<"nTables">>, "USHORT", Num(1)),
       Field(<<"version">>, "USHORT", Num(0)),
       Field(<<"length">>, "USHORT", Num(n * 6)),
       Field(<<"coverage">>, "USHORT", Num(1)),
       Field(<<"nPairs">>, "USHORT", Num(n)),
       Field(<<"searchRange">>, "USHORT", JsTimes(largestPow2(n), 6)),
       Field(<<"entrySelector">>, "USHORT", entrySelector(n)),
       Field(<<"rangeShift">>, "USHORT", JsTimes(JsMinus(n, largestPow2(n)), 6)) >>

\* The nine header fields of the single hardcoded subtable.
kernHeader(n) ==
    << Field(<<"version">>, "USHORT", Num(0)),
       Field(<<"nTables">>, "USHORT", Num(1)),
       Field(<<"version">>, "USHORT", Num(0)),
       Field(<<"length">>, "USHORT", Num(14 + n * 6)),
       Field(<<"coverage">>, "USHORT", Num(1)),
       Field(<<"nPairs">>, "USHORT", Num(n)),
       Field(<<"searchRange">>, "USHORT", JsTimes(largestPow2(n), 6)),
       Field(<<"entrySelector">>, "USHORT", entrySelector(n)),
       Field(<<"rangeShift">>, "USHORT", JsTimes(JsMinus(n, largestPow2(n)), 6)) >>

\* Object.entries(pairs): the own properties in insertion order (no key of a
\* kerning object is an array index, every key holds a comma).
ObjectEntries(obj) == obj

makeKernTable ==
    /\ pc = "make"
    /\ LET entries == ObjectEntries(pairs)
           n       == Len(entries)
       IN  kern' = kernHeader(n) \o records(entries, n)
    /\ pc' = "encode"
    /\ UNCHANGED <<tv, pairs, data, start, p, rd, acc, nPairs, i, warnings, result, error>>

----------------------------------------------------------------------------
(* The Table Builder: every field written big-endian in declared order *)

UInt16Bytes(v) == <<v \div 256, v % 256>>

\* What a 16-bit field is written as when its value is no integer.
FillBytes == { <<0, 0>>, <<255, 255>> }

\* A USHORT or FWORD field: the low 16 bits of its value, two's complement.
\* The bytes of a field whose value is no integer are not defined: fill.
encodeField(f, fill) ==
    IF IsInteger(f.value) THEN UInt16Bytes(f.value.v % 65536) ELSE fill

RECURSIVE encodeFields(_, _)
encodeFields(fields, fill) ==
    IF fields = <<>> THEN <<>>
    ELSE encodeField(Head(fields), fill) \o encodeFields(Tail(fields), fill)

TableEncode ==
    /\ pc = "encode"
    /\ \E fill \in FillBytes : data' = encodeFields(kern, fill)
    /\ start' = 0
    /\ pc' = "parse"
    /\ UNCHANGED <<tv, pairs, kern, p, rd, acc, nPairs, i, warnings, result, error>>

----------------------------------------------------------------------------
(* The Binary Cursor (parse.Parser): big-endian reads and skips that fail   *)
(* when the buffer holds too few bytes                                      *)

\* A cursor: its position, the offsets read through it, and whether every
\* operation so far succeeded.
Cursor(off, r) == [off |-> off, rd |-> r, ok |-> TRUE]

Fits(c, width) == c.ok /\ c.off >= 0 /\ c.off + width <= Len(data)

\* The cursor after a read of `width` bytes.
parseBytes(c, width) ==
    IF Fits(c, width)
    THEN [off |-> c.off + width, rd |-> c.rd \cup (c.off .. (c.off + width - 1)), ok |-> TRUE]
    ELSE [c EXCEPT !.ok = FALSE]

\* The cursor after p.skip(type, amount), `width` being the bytes skipped.
skip(c, width) ==
    IF Fits(c, width)
    THEN [c EXCEPT !.off = c.off + width]
    ELSE [c EXCEPT !.ok = FALSE]

\* The values the reads return at cursor c (0 when the read fails).
parseUShort(c) ==
    IF Fits(c, 2) THEN data[c.off + 1] * 256 + data[c.off + 2] ELSE 0

parseShort(c) ==
    LET u == parseUShort(c) IN IF u >= 32768 THEN u - 65536 ELSE u

parseULong(c) ==
    IF Fits(c, 4)
    THEN ((data[c.off + 1] * 256 + data[c.off + 2]) * 256 + data[c.off + 3]) * 256
         + data[c.off + 4]
    ELSE 0

\* The error a failed read or skip raises.
IOError == <<"I/O error">>

----------------------------------------------------------------------------
(* parseKernTable *)

\* 'Unsupported kern table version (' + tableVersion + ').'
UnsupportedTableVersion(tableVersion) ==
    <<"Unsupported kern table version (">> \o NumberToString(tableVersion) \o <<").">>

\* The message check.argument fails with in parseWindowsKernTable.
UnsupportedSubtableVersion(subtableVersion) ==
    <<"Unsupported kern sub-table version.">>

\* Mutant of dispatch: every version but 0 taken for a Mac table.
dispatchNonZeroIsMac(tableVersion) ==
    IF tableVersion = 0 THEN "windows" ELSE "mac"

\* The branch parseKernTable takes on the table version.
dispatch(tableVersion) ==
    IF tableVersion = 0 THEN "windows"
    ELSE IF tableVersion = 1 THEN "mac"
    ELSE "thrown"

parseKernTable ==
    /\ pc = "parse"
    /\ LET c0 == Cursor(start, {})
           tableVersion == parseUShort(c0)
           c1 == parseBytes(c0, 2)
       IN  /\ p' = c1.off
           /\ rd' = c1.rd
           /\ IF ~c1.ok
              THEN pc' = "thrown" /\ error' = IOError
              ELSE /\ pc' = dispatch(tableVersion)
                   /\ error' = IF dispatch(tableVersion) = "thrown"
                               THEN UnsupportedTableVersion(tableVersion)
                               ELSE error
    /\ acc' = <<>>
    /\ UNCHANGED <<tv, pairs, kern, data, start, nPairs, i, warnings, result>>

\* One pass of the record loop at cursor c: the three reads and the
\* assignment pairs[leftIndex + ',' + rightIndex] = value.
parsePair(c, obj) ==
    LET leftIndex  == parseUShort(c)
        c1         == parseBytes(c, 2)
        rightIndex == parseUShort(c1)
        c2         == parseBytes(c1, 2)
        value      == parseShort(c2)
        c3         == parseBytes(c2, 2)
    IN  [c |-> c3,
         pairs |-> IF c3.ok THEN ObjectSet(obj, PairKey(leftIndex, rightIndex), value) ELSE obj]

\* Mutant of subtableVersionSupported: only the low byte compared, as the
\* Mac decoder does.
subtableVersionLowByte(subtableVersion) == subtableVersion % 256 = 0

\* The predicate check.argument is given in parseWindowsKernTable.
subtableVersionSupported(subtableVersion) == subtableVersion = 0

\* parseWindowsKernTable up to its loop.
parseWindowsHeader(c) ==
    LET c1 == skip(c, 2)
        subtableVersion == parseUShort(c1)
        c2 == parseBytes(c1, 2)
        c3 == skip(c2, 4)
        n  == parseUShort(c3)
        c4 == parseBytes(c3, 2)
        c5 == skip(c4, 6)
    IN  IF ~c2.ok THEN [c |-> c2, nPairs |-> 0, error |-> IOError]
        ELSE IF ~subtableVersionSupported(subtableVersion)
        THEN [c |-> c2, nPairs |-> 0, error |-> UnsupportedSubtableVersion(subtableVersion)]
        ELSE IF ~c5.ok THEN [c |-> c5, nPairs |-> 0, error |-> IOError]
        ELSE [c |-> c5, nPairs |-> n, error |-> <<>>]

parseWindowsKernTable ==
    /\ pc = "windows"
    /\ LET h == parseWindowsHeader(Cursor(p, rd))
       IN  /\ p' = h.c.off
           /\ rd' = h.c.rd
           /\ nPairs' = h.nPairs
           /\ IF h.error # <<>>
              THEN pc' = "thrown" /\ error' = h.error
              ELSE pc' = "windowsPairs" /\ error' = error
    /\ i' = 0
    /\ UNCHANGED <<tv, pairs, kern, data, start, acc, warnings, result>>

parseWindowsPair ==
    /\ pc = "windowsPairs"
    /\ i < nPairs
    /\ LET r == parsePair(Cursor(p, rd), acc)
       IN  /\ p' = r.c.off
           /\ rd' = r.c.rd
           /\ acc' = r.pairs
           /\ IF r.c.ok
              THEN pc' = pc /\ i' = i + 1 /\ error' = error
              ELSE pc' = "thrown" /\ i' = i /\ error' = IOError
    /\ UNCHANGED <<tv, pairs, kern, data, start, nPairs, warnings, result>>

parseWindowsReturn ==
    /\ pc = "windowsPairs"
    /\ ~(i < nPairs)
    /\ result' = acc
    /\ pc' = "returned"
    /\ UNCHANGED <<tv, pairs, kern, data, start, p, rd, acc, nPairs, i, warnings, error>>

\* Mutant of subtableWarnings: the comparison off by one.
subtableWarningsFromOne(nTables) == IF nTables >= 1 THEN 1 ELSE 0

\* Mutant of macSubtableVersion: the coverage word unmasked.
macSubtableVersionUnmasked(coverage) == coverage

\* The number of console.warn calls parseMacKernTable makes for nTables.
subtableWarnings(nTables) == IF nTables > 1 THEN 1 ELSE 0

\* coverage & 0xFF
macSubtableVersion(coverage) == coverage % 256

\* parseMacKernTable up to its loop: the header of the table and of its
\* first subtable.
parseMacHeader(c) ==
    LET c1 == skip(c, 2)
        nTables == parseULong(c1)
        c2 == parseBytes(c1, 4)
        c3 == skip(c2, 4)
        coverage == parseUShort(c3)
        subtableVersion == macSubtableVersion(coverage)
        c4 == parseBytes(c3, 2)
        c5 == skip(c4, 2)
        n  == parseUShort(c5)
        c6 == parseBytes(c5, 2)
        c7 == skip(c6, 6)
    IN  IF ~c2.ok THEN [c |-> c2, warn |-> 0, nPairs |-> 0, format0 |-> FALSE, error |-> IOError]
        ELSE LET warn == subtableWarnings(nTables)
             IN  IF ~c5.ok
                 THEN [c |-> c5, warn |-> warn, nPairs |-> 0, format0 |-> FALSE, error |-> IOError]
                 ELSE IF subtableVersion # 0
                 THEN [c |-> c5, warn |-> warn, nPairs |-> 0, format0 |-> FALSE, error |-> <<>>]
                 ELSE IF ~c7.ok
                 THEN [c |-> c7, warn |-> warn, nPairs |-> 0, format0 |-> TRUE, error |-> IOError]
                 ELSE [c |-> c7, warn |-> warn, nPairs |-> n, format0 |-> TRUE, error |-> <<>>]

parseMacKernTable ==
    /\ pc = "mac"
    /\ LET h == parseMacHeader(Cursor(p, rd))
       IN  /\ p' = h.c.off
           /\ rd' = h.c.rd
           /\ nPairs' = h.nPairs
           /\ warnings' = warnings + h.warn
           /\ IF h.error # <<>>
              THEN pc' = "thrown" /\ error' = h.error /\ result' = result
              ELSE IF h.format0
              THEN pc' = "macPairs" /\ error' = error /\ result' = result
              ELSE pc' = "returned" /\ error' = error /\ result' = acc
    /\ i' = 0
    /\ UNCHANGED <<tv, pairs, kern, data, start, acc>>

parseMacPair ==
    /\ pc = "macPairs"
    /\ i < nPairs
    /\ LET r == parsePair(Cursor(p, rd), acc)
       IN  /\ p' = r.c.off
           /\ rd' = r.c.rd
           /\ acc' = r.pairs
           /\ IF r.c.ok
              THEN pc' = pc /\ i' = i + 1 /\ error' = error
              ELSE pc' = "thrown" /\ i' = i /\ error' = IOError
    /\ UNCHANGED <<tv, pairs, kern, data, start, nPairs, warnings, result>>

parseMacReturn ==
    /\ pc = "macPairs"
    /\ ~(i < nPairs)
    /\ result' = acc
    /\ pc' = "returned"
    /\ UNCHANGED <<tv, pairs, kern, data, start, p, rd, acc, nPairs, i, warnings, error>>

----------------------------------------------------------------------------
(* Test vectors *)

\* Kerning pairs (left, right) and values of the objects handed to makeKernTable.
MakeKeys == { <<0, 65535>>, <<3, 5>>, <<10, 20>>, <<65535, 0>> }

MakeValues == { -32768, -120, 50 }

\* The objects with at most MaxPairs properties, in every insertion order.
MakeObjects ==
    UNION { { [j \in 1..n |-> <<PairKey(f[j][1][1], f[j][1][2]), f[j][2]>>] :
              f \in { g \in [1..n -> MakeKeys \X MakeValues] :
                        \A a, b \in 1..n : a # b => g[a][1] # g[b][1] } } :
            n \in 0..MaxPairs }

\* Pair records (left, right, value) of the buffers handed to parseKernTable;
\* a buffer may hold the same pair twice.
RawRecords == { <<3, 5, -1>>, <<3, 5, 32767>>, <<256, 65535, -1>> }

RawRecordLists == UNION { [1..n -> RawRecords] : n \in 0..MaxPairs }

TableVersions == { 0, 1, 2, 256, 65535 }

SubtableVersions == { 0, 3, 256 }

TableCounts == { 0, 1, 2, 65536 }

\* Mac coverage words: format 0 with and without flag bits, format 2 likewise.
Coverages == { 0, 32768, 2, 32770 }

\* Bytes cut off the end of a buffer.
Cuts == { 0, 1, 8 }

\* Offsets the table starts at in its buffer.
Starts == { 0, 3 }

UInt32Bytes(v) == UInt16Bytes(v \div 65536) \o UInt16Bytes(v % 65536)

RecordBytes(rec) ==
    UInt16Bytes(rec[1]) \o UInt16Bytes(rec[2]) \o UInt16Bytes(rec[3] % 65536)

RECURSIVE RecordListBytes(_)
RecordListBytes(recs) ==
    IF recs = <<>> THEN <<>> ELSE RecordBytes(Head(recs)) \o RecordListBytes(Tail(recs))

\* nPairs, the three search hints (left zero) and the records.
Format0Bytes(recs) ==
    UInt16Bytes(Len(recs)) \o <<0, 0, 0, 0, 0, 0>> \o RecordListBytes(recs)

\* A second Mac subtable, holding the one pair (7, 7) -> 7.
SecondSubtable ==
    UInt32Bytes(22) \o UInt16Bytes(0) \o UInt16Bytes(0) \o Format0Bytes(<< <<7, 7, 7>> >>)

\* The table a vector describes, before it is cut and placed at its offset.
TableBytes(v) ==
    IF v.version = 1
    THEN UInt16Bytes(1) \o UInt16Bytes(0) \o UInt32Bytes(v.nTables)
         \o UInt32Bytes(16 + 6 * Len(v.recs)) \o UInt16Bytes(v.coverage) \o UInt16Bytes(0)
         \o Format0Bytes(v.recs)
         \o (IF v.more THEN SecondSubtable ELSE <<>>)
    ELSE UInt16Bytes(v.version) \o UInt16Bytes(v.nTables) \o UInt16Bytes(v.subVersion)
         \o UInt16Bytes(14 + 6 * Len(v.recs)) \o UInt16Bytes(v.coverage)
         \o Format0Bytes(v.recs)

BufferOf(v) ==
    LET t == TableBytes(v)
    IN  [j \in 1..v.start |-> 255] \o SubSeq(t, 1, Len(t) - v.cut)

Vector(kind, obj, version, nTables, subVersion, coverage, recs, more, cut, st) ==
    [kind |-> kind, pairs |-> obj, version |-> version, nTables |-> nTables,
     subVersion |-> subVersion, coverage |-> coverage, recs |-> recs, more |-> more,
     cut |-> cut, start |-> st]

MakeVectors ==
    { Vector("make", obj, 0, 1, 0, 1, <<>>, FALSE, 0, 0) : obj \in MakeObjects }

WindowsVectors ==
    { Vector("parse", <<>>, 0, 1, sv, 1, recs, FALSE, cut, st) :
        sv \in SubtableVersions, recs \in RawRecordLists, cut \in Cuts, st \in Starts }

MacVectors ==
    { Vector("parse", <<>>, 1, nt, 0, cov, recs, more, cut, st) :
        nt \in TableCounts, cov \in Coverages, recs \in RawRecordLists,
        more \in BOOLEAN, cut \in Cuts, st \in Starts }

OtherVectors ==
    { Vector("parse", <<>>, ver, 1, 0, 1, <<>>, FALSE, cut, st) :
        ver \in TableVersions \ {0, 1}, cut \in Cuts, st \in Starts }

Vectors == MakeVectors \cup WindowsVectors \cup MacVectors \cup OtherVectors

----------------------------------------------------------------------------
(* The specification *)

Init ==
    /\ tv \in Vectors
    /\ pairs = tv.pairs
    /\ kern = <<>>
    /\ data = IF tv.kind = "make" THEN <<>> ELSE BufferOf(tv)
    /\ start = tv.start
    /\ pc = IF tv.kind = "make" THEN "make" ELSE "parse"
    /\ p = 0
    /\ rd = {}
    /\ acc = <<>>
    /\ nPairs = 0
    /\ i = 0
    /\ warnings = 0
    /\ result = <<>>
    /\ error = <<>>

Next ==
    \/ makeKernTable
    \/ TableEncode
    \/ parseKernTable
    \/ parseWindowsKernTable
    \/ parseWindowsPair
    \/ parseWindowsReturn
    \/ parseMacKernTable
    \/ parseMacPair
    \/ parseMacReturn

Spec == Init /\ [][Next]_vars

----------------------------------------------------------------------------
(* Vocabulary of the properties *)

\* The mapping an object holds: its (key, value) pairs.
Mapping(obj) == { <<obj[j][1], obj[j][2]>> : j \in 1..Len(obj) }

UniqueKeys(obj) == \A a, b \in 1..Len(obj) : a # b => obj[a][1] # obj[b][1]

\* The pair (left, right) a key of a makeKernTable vector stands for.
KeyPair(key) == CHOOSE k \in MakeKeys : PairKey(k[1], k[2]) = key

PairBefore(a, b) == a[1] < b[1] \/ (a[1] = b[1] /\ a[2] < b[2])

\* The entries of obj are in ascending order of (left, right).
SortedObject(obj) ==
    \A j \in 1..(Len(obj) - 1) : PairBefore(KeyPair(obj[j][1]), KeyPair(obj[j + 1][1]))

\* The mapping a list of pair records decodes to: every pair of the list,
\* with the value of its last record.
RecordMapping(recs) ==
    { <<PairKey(recs[j][1], recs[j][2]), recs[j][3]>> :
        j \in { a \in 1..Len(recs) :
                  \A b \in (a + 1)..Len(recs) :
                      <<recs[b][1], recs[b][2]>> # <<recs[a][1], recs[a][2]>> } }

\* makeKernTable has run on the vector's object.
Made == tv.kind = "make" /\ pc # "make"

\* The values of the header fields of the table made.
HeaderValues == [j \in 1..9 |-> kern[j].value]

\* The largest power of two that is at most n, and its exponent.
LargestPowerOfTwo(n) == Pow2(FloorLog2(n))

\* The message names value v: its decimal digits occur in it.
Carries(msg, v) ==
    \E a, b \in 1..Len(msg) : SubSeq(msg, a, b) = NumberToString(v)

----------------------------------------------------------------------------
(* Properties of makeKernTable *)

\* C1: a non-empty object with unique keys, in ascending order of
\* (left, right), is returned by parseKernTable(bytes of makeKernTable, 0)
\* as an equal mapping: the same keys, each with the same value; the parse
\* does not fail.
C1_RoundTrip ==
    (tv.kind = "make" /\ tv.pairs # <<>> /\ SortedObject(tv.pairs))
        => /\ pc # "thrown"
           /\ pc = "returned" =>
                /\ UniqueKeys(result)
                /\ Mapping(result) = Mapping(tv.pairs)

C1_Witness ==
    /\ tv.kind = "make"
    /\ Len(tv.pairs) = 3
    /\ SortedObject(tv.pairs)
    /\ \E j \in 1..3 : tv.pairs[j][2] < 0
    /\ pc = "returned"
    /\ Mapping(result) = Mapping(tv.pairs)

\* C6 (as claimed): the table made of the empty object has nine fields,
\* length 14, nPairs 0 and searchRange = entrySelector = rangeShift = 0.
C6_ZeroPairEncode ==
    (Made /\ tv.pairs = <<>>)
        => /\ Len(kern) = 9
           /\ kern[4].value = Num(14)
           /\ kern[6].value = Num(0)
           /\ kern[7].value = Num(0)
           /\ kern[8].value = Num(0)
           /\ kern[9].value = Num(0)

\* The object of the two-pair example, in its order.
ExampleObject == << <<PairKey(3, 5), -120>>, <<PairKey(10, 20), 50>> >>

ExampleRecords ==
    << Num(3), Num(5), Num(-120), Num(10), Num(20), Num(50) >>

C8_SearchHints ==
    (Made /\ Len(tv.pairs) >= 1)
        => LET n == Len(tv.pairs)
               P == LargestPowerOfTwo(n)
           IN  /\ kern[7].value = Num(6 * P)
               /\ kern[8].value = Num(FloorLog2(n))
               /\ kern[9].value = Num(6 * (n - P))

\* C9: the table made of an object with n entries has 9 + 3n fields: 0, 1, 0,
\* 14 + 6n, 1, n, the three search hints, then for each entry, in the
\* object's order, left (USHORT), right (USHORT), value (FWORD); nothing is
\* sorted, dropped or duplicated, and the object is left as it was.
C9_EncoderLayout ==
    Made
        => LET n == Len(tv.pairs)
           IN  /\ Len(kern) = 9 + 3 * n
               /\ \A j \in 1..9 : kern[j].type = "USHORT"
               /\ [j \in 1..6 |-> kern[j].value]
                    = << Num(0), Num(1), Num(0), Num(14 + 6 * n), Num(1), Num(n) >>
               /\ << kern[7].name, kern[8].name, kern[9].name >>
                    = << <<"searchRange">>, <<"entrySelector">>, <<"rangeShift">> >>
               /\ \A j \in 1..n :
                    LET k == KeyPair(tv.pairs[j][1])
                        b == 9 + 3 * (j - 1)
                    IN  /\ kern[b + 1].type = "USHORT" /\ kern[b + 1].value = Num(k[1])
                        /\ kern[b + 2].type = "USHORT" /\ kern[b + 2].value = Num(k[2])
                        /\ kern[b + 3].type = "FWORD"
                        /\ kern[b + 3].value = Num(tv.pairs[j][2])
               /\ pairs = tv.pairs

C9_Witness ==
    /\ Made
    /\ Len(tv.pairs) = 3
    /\ ~SortedObject(tv.pairs)
    /\ Len(kern) = 18
    /\ pairs = tv.pairs

\* C10 (as claimed): for 1 <= n <= 65535 each of the nine header values is
\* an integer in 0..65535.
C10_HeaderFits ==
    (Made /\ Len(tv.pairs) >= 1)
        => \A j \in 1..9 : IsInteger(kern[j].value) /\ kern[j].value.v \in 0..65535

----------------------------------------------------------------------------
(* Properties of parseKernTable *)

\* The vector is a buffer handed to parseKernTable.
Parsing == tv.kind = "parse"

\* The uint16 the buffer holds at offset off.
WordAt(off) == data[off + 1] * 256 + data[off + 2]

\* C2: parseKernTable reads one uint16 at the start offset; version 0 goes to
\* the Windows decoder, version 1 to the Mac decoder, and every other value
\* v fails with the unsupported-table-version error that carries v, and
\* returns no mapping.
C2_VersionDispatch ==
    [][ (pc = "parse" /\ Len(data) >= start + 2)
          => LET v == WordAt(start)
             IN  /\ rd' = {start, start + 1}
                 /\ v = 0 => pc' = "windows"
                 /\ v = 1 => pc' = "mac"
                 /\ v \notin {0, 1}
                      => /\ pc' = "thrown"
                         /\ Head(error') = "Unsupported kern table version ("
                         /\ Carries(error', v)
                         /\ result' = <<>>
                         /\ ~(ENABLED Next)' ]_vars

C2_Witness ==
    /\ Parsing
    /\ tv.version = 65535
    /\ pc = "thrown"
    /\ error = <<"Unsupported kern table version (", "6", "5", "5", "3", "5", ").">>
    /\ result = <<>>

\* The vector is a Windows table whose subtable version is not 0.
BadWindowsSubtable == Parsing /\ tv.version = 0 /\ tv.subVersion # 0

\* The offsets of the table version and of the subtable version.
VersionFields == {start, start + 1, start + 4, start + 5}

\* C3 (as claimed): a Windows table with subtable version v # 0 fails with
\* an error that carries v, before any pair record is read and without
\* returning a mapping.
C3_AsClaimed ==
    BadWindowsSubtable
        => /\ pc \notin {"windowsPairs", "returned"}
           /\ pc = "thrown"
                => /\ Carries(error, tv.subVersion)
                   /\ rd = VersionFields
                   /\ result = <<>>

\* C3 (amended): it fails with the error 'Unsupported kern sub-table
\* version.', which does not carry v, before any pair record is read
\* and without returning a mapping.
C3_SubtableVersionRejected ==
    BadWindowsSubtable
        => /\ pc \notin {"windowsPairs", "returned"}
           /\ pc = "thrown"
                => /\ error = <<"Unsupported kern sub-table version.">>
                   /\ ~Carries(error, tv.subVersion)
                   /\ rd = VersionFields
                   /\ acc = <<>>
                   /\ result = <<>>

C3_Witness ==
    /\ BadWindowsSubtable
    /\ tv.subVersion = 3
    /\ tv.recs # <<>>
    /\ tv.cut = 0
    /\ pc = "thrown"
    /\ rd = VersionFields

\* The buffer holds the whole first subtable of the vector's Mac table.
FirstSubtableHeld == Len(data) >= start + 24 + 6 * Len(tv.recs)

\* C4: a Mac table with nTables > 1 whose first subtable has format 0 is
\* decoded without an error and with exactly one diagnostic, to exactly the
\* pairs of the first subtable, and no byte after the first subtable is
\* read; with nTables <= 1 there is no diagnostic.
C4_MacMultiSubtable ==
    (Parsing /\ tv.version = 1)
        => /\ (tv.nTables > 1 /\ tv.coverage % 256 = 0 /\ FirstSubtableHeld)
                => /\ pc # "thrown"
                   /\ pc \in {"macPairs", "returned"} => warnings = 1
                   /\ pc = "returned"
                        => UniqueKeys(result) /\ Mapping(result) = RecordMapping(tv.recs)
                   /\ \A off \in rd : off < start + 24 + 6 * Len(tv.recs)
           /\ tv.nTables <= 1 => warnings = 0

C4_Witness ==
    /\ Parsing
    /\ tv.version = 1
    /\ tv.nTables = 2
    /\ tv.more
    /\ tv.cut = 0
    /\ tv.coverage = 0
    /\ Len(tv.recs) = 2
    /\ pc = "returned"
    /\ warnings = 1
    /\ Len(result) = 2

\* The buffer holds the header of the table and of its first subtable.
MacHeaderHeld == Len(data) >= start + 16

\* C5: a Mac table whose coverage has a non-zero low byte decodes to the
\* empty mapping without an error, whatever follows the subtable header;
\* when the low byte is 0, whatever the high byte, the nPairs records are
\* decoded.
C5_MacSubformat ==
    (Parsing /\ tv.version = 1 /\ MacHeaderHeld)
        => /\ tv.coverage % 256 # 0
                => /\ pc \notin {"thrown", "macPairs"}
                   /\ pc = "returned" => result = <<>>
                   /\ \A off \in rd : off < start + 16
           /\ (tv.coverage % 256 = 0 /\ FirstSubtableHeld /\ pc = "returned")
                => /\ i = Len(tv.recs)
                   /\ Mapping(result) = RecordMapping(tv.recs)

C5_Witness ==
    /\ Parsing
    /\ tv.version = 1
    /\ tv.coverage = 32770
    /\ tv.recs # <<>>
    /\ pc = "returned"
    /\ result = <<>>

====
